---- MODULE Spec2Model ----
(***************************************************************************)
(* Model of the prediction engine of okey (src/main.py): the stat          *)
(* normalizer (build_team_df, build_player_df), the expected-rate model    *)
(* (expected_goals_from_team_stats), the form adjustment                   *)
(* (apply_player_form_adjustment), the outcome simulator                   *)
(* (monte_carlo_game), the effectiveness ranker                            *)
(* (_effective_players_for_game) and the report (summarize_game, main).    *)
(*                                                                         *)
(* Python values are records [k, n, d]: k is the kind ("num", "nan",       *)
(* "none", "text", "absent"); a number is the exact rational n/d in lowest *)
(* terms with d > 0.  Floating-point rounding is not modelled; float NaN   *)
(* is, with Python's comparison rules (every comparison with NaN is        *)
(* false).                                                                 *)
(***************************************************************************)
EXTENDS Integers, Sequences, FiniteSets, TLC

VARIABLES
    pc,          \* position of the run
    exc,         \* the exception that ended the run, or "none"
    teams_raw,   \* teamsStats.json: sequence of raw team records
    teams_df,    \* build_team_df's table: sequence of rows
    players_raw, \* playerStats.json: sequence of raw player records
    players_df,  \* build_player_df's table: sequence of rows
    xg_in,       \* the arguments of the last expected_goals_from_team_stats call
    lam,         \* its result <<lam_home, lam_away>>
    adj,         \* the last apply_player_form_adjustment call and its result
    eff,         \* the last _effective_players_for_game call and its ranking
    mc,          \* the last monte_carlo_game call and its result
    mc_prev,     \* the monte_carlo_game call before it
    today,       \* todayGames.json: sequence of games
    args,        \* the command line: [mode, index]
    gi,          \* number of games of today handed to summarize_game so far
    report       \* what the last summarize_game call produced

vars == <<pc, exc, teams_raw, teams_df, players_raw, players_df, xg_in, lam,
          adj, eff, mc, mc_prev, today, args, gi, report>>

(***************************************************************************)
(* Numbers                                                                 *)
(***************************************************************************)
Abs(i) == IF i < 0 THEN -i ELSE i

RECURSIVE GCD(_, _)
GCD(a, b) == IF b = 0 THEN a ELSE GCD(b, a % b)

\* the rational n/d (d # 0) in lowest terms with a positive denominator
Num(n, d) ==
    LET g == GCD(Abs(n), Abs(d))
        s == IF d < 0 THEN -1 ELSE 1
    IN  [k |-> "num", n |-> (s * n) \div g, d |-> (s * d) \div g]

IntV(i) == [k |-> "num", n |-> i, d |-> 1]
None   == [k |-> "none", n |-> 0, d |-> 1]
NaN    == [k |-> "nan", n |-> 0, d |-> 1]
Text   == [k |-> "text", n |-> 0, d |-> 1]     \* a non-numeric, non-empty str
Absent == [k |-> "absent", n |-> 0, d |-> 1]   \* the key is not in the dict
\* a str that is not a number and contains a ':' ("n/a:x")
ColonText == [k |-> "text", n |-> 1, d |-> 1]
\* the str "MM:SS" for the integers mm, ss ("18:30")
MMSS(mm, ss) == [k |-> "mmss", n |-> mm, d |-> ss]
\* the str that float() reads as the number n/d ("18.5", "+2")
NumText(n, d) == [k |-> "numtext", n |-> n, d |-> d]

IsNum(v) == v.k = "num"
IsNumeric(v) == v.k \in {"num", "nan"}         \* a Python float or int

\* dict.get(key): None for a key that is absent
Get(v) == IF v.k = "absent" THEN None ELSE v

\* Python truthiness: None, 0 and 0.0 are falsy; NaN and a non-empty str are truthy
Truthy(v) ==
    CASE v.k = "num" -> v.n # 0
      [] v.k = "nan" -> TRUE
      [] v.k \in {"text", "mmss", "numtext"} -> TRUE
      [] OTHER -> FALSE

\* a or b
Or(a, b) == IF Truthy(a) THEN a ELSE b

\* float arithmetic on numeric values: NaN propagates
Add(a, b) == IF a.k = "nan" \/ b.k = "nan" THEN NaN
             ELSE Num(a.n * b.d + b.n * a.d, a.d * b.d)
Mul(a, b) == IF a.k = "nan" \/ b.k = "nan" THEN NaN
             ELSE Num(a.n * b.n, a.d * b.d)
Sub(a, b) == Add(a, Mul(IntV(-1), b))
\* a / b for b # 0
Div(a, b) == IF a.k = "nan" \/ b.k = "nan" THEN NaN
             ELSE Num(a.n * b.d, a.d * b.n)

\* a < b, a <= b, a == b on floats: false when either side is NaN
Lt(a, b) == a.k = "num" /\ b.k = "num" /\ a.n * b.d < b.n * a.d
Le(a, b) == a.k = "num" /\ b.k = "num" /\ a.n * b.d <= b.n * a.d
Eq(a, b) == a.k = "num" /\ b.k = "num" /\ a.n * b.d = b.n * a.d

\* Python's min(a, b) and max(a, b): the first argument unless the second
\* is strictly smaller (larger)
PyMin(a, b) == IF Lt(b, a) THEN b ELSE a
PyMax(a, b) == IF Lt(a, b) THEN b ELSE a

\* lo <= v <= hi
InRange(v, lo, hi) == Le(lo, v) /\ Le(v, hi)

(***************************************************************************)
(* Strings: team abbreviations are TLC strings; str.upper() on them        *)
(***************************************************************************)
Upper(s) ==
    CASE s = "mtl" -> "MTL"
      [] s = "tor" -> "TOR"
      [] OTHER -> s

(***************************************************************************)
(* Stat normalizer, teams: build_team_df                                   *)
(***************************************************************************)
\* one row of build_team_df for the raw record t (lines 39-58)
TeamRow(t) ==
    LET gp == Or(Get(t.gamesPlayed), IntV(0))
        ga == Or(Get(t.goalAgainst), IntV(0))
        gd == Or(Get(t.goalDifferential), IntV(0))
        gf == IF Truthy(gp) THEN Add(gd, ga) ELSE None
    IN  [abbrev       |-> t.abrev,
         gamesPlayed  |-> gp,
         points       |-> Or(Get(t.points), IntV(0)),
         goalFor      |-> gf,
         goalAgainst  |-> ga,
         goalDiff     |-> gd,
         gf_per_game  |-> IF Truthy(gp) THEN Div(gf, gp) ELSE None,
         ga_per_game  |-> IF Truthy(gp) THEN Div(ga, gp) ELSE None]

\* the row's arithmetic raises TypeError or ValueError: gd + ga, float(gf) / gp
\* and float(ga) / gp are evaluated when gp is truthy, and need numbers
TeamRowRaises(t) ==
    LET gp == Or(Get(t.gamesPlayed), IntV(0))
        ga == Or(Get(t.goalAgainst), IntV(0))
        gd == Or(Get(t.goalDifferential), IntV(0))
    IN  Truthy(gp) /\ ~(IsNum(gp) /\ IsNum(ga) /\ IsNum(gd))

\* pd.DataFrame(rows): a column holding numbers and None becomes float64 and
\* its None become NaN; a column holding only None stays an object column
FloatColumn(rows, col) == \E i \in 1..Len(rows) : IsNumeric(col[i])
Coerce(rows, col, i) ==
    IF col[i].k = "none" /\ FloatColumn(rows, col) THEN NaN ELSE col[i]

DataFrameOfTeams(rows) ==
    LET gfs  == [i \in 1..Len(rows) |-> rows[i].goalFor]
        gfpg == [i \in 1..Len(rows) |-> rows[i].gf_per_game]
        gapg == [i \in 1..Len(rows) |-> rows[i].ga_per_game]
    IN  [i \in 1..Len(rows) |->
            [rows[i] EXCEPT !.goalFor     = Coerce(rows, gfs, i),
                            !.gf_per_game = Coerce(rows, gfpg, i),
                            !.ga_per_game = Coerce(rows, gapg, i)]]

build_team_df_raises(raw) == \E i \in 1..Len(raw) : TeamRowRaises(raw[i])

build_team_df(raw) == DataFrameOfTeams([i \in 1..Len(raw) |-> TeamRow(raw[i])])

(***************************************************************************)
(* Expected-rate model: expected_goals_from_team_stats                     *)
(***************************************************************************)
DefaultGF  == Num(27, 10)
DefaultGA  == Num(29, 10)
DefaultAdv == Num(12, 100)
LamHomeMin == Num(2, 10)
LamAwayMin == Num(1, 10)
LamMax     == IntV(6)

\* the rates the model uses (lines 145-148): dict.get(key) or default
UsedGF(team) == Or(Get(team.gf_per_game), DefaultGF)
UsedGA(team) == Or(Get(team.ga_per_game), DefaultGA)

\* the rate model with the upper clamp of lam_away left out
expected_goals_away_unclamped(home, away, home_adv) ==
    LET lam_home == Add(Add(Mul(Num(55, 100), UsedGF(home)),
                            Mul(Num(45, 100), UsedGA(away))), home_adv)
        lam_away == Add(Mul(Num(55, 100), UsedGF(away)), Mul(Num(45, 100), UsedGA(home)))
    IN  <<PyMax(LamHomeMin, PyMin(LamMax, lam_home)), PyMax(LamAwayMin, lam_away)>>

\* lines 150-155
expected_goals_from_team_stats(home, away, home_adv) ==
    LET h_gf == UsedGF(home)
        h_ga == UsedGA(home)
        a_gf == UsedGF(away)
        a_ga == UsedGA(away)
        lam_home == Add(Add(Mul(Num(55, 100), h_gf), Mul(Num(45, 100), a_ga)), home_adv)
        lam_away == Add(Mul(Num(55, 100), a_gf), Mul(Num(45, 100), h_ga))
    IN  <<PyMax(LamHomeMin, PyMin(LamMax, lam_home)),
          PyMax(LamAwayMin, PyMin(LamMax, lam_away))>>

(***************************************************************************)
(* Stat normalizer and form estimator, players: build_player_df            *)
(*                                                                         *)
(* A raw player record has the fields name, team, gamesPlayed, points,     *)
(* position, pos, gameLog, last5Points, recentPoints, recentGames,         *)
(* lastFive, last5Games (the key the collector writes, which               *)
(* build_player_df does not read), and the season aggregates shots, sog,   *)
(* hits, blocks, plusMinus, pim, corsi, toi (one value per logical field:  *)
(* the code's alternative key names for the same field are not             *)
(* distinguished).                                                         *)
(* gameLog and lastFive are sequences (<<>> when the key is absent, not a  *)
(* list, or an empty list: the code treats the three alike).               *)
(* A gameLog entry is [isdict, points, goals, assists].                    *)
(***************************************************************************)
GameLogCap == 5

RECURSIVE SumSeq(_)
SumSeq(q) == IF q = <<>> THEN IntV(0) ELSE Add(Head(q), SumSeq(Tail(q)))

Prefix(q, n) == SubSeq(q, 1, IF Len(q) < n THEN Len(q) ELSE n)

\* gval or 0, aval or 0 of a game entry (line 98)
EntryG(g) == Or(Get(g.goals), IntV(0))
EntryA(g) == Or(Get(g.assists), IntV(0))

\* the entry has an explicit, non-null points field (line 91)
EntryHasPoints(g) == g.points.k \notin {"absent", "none"}

\* the entry reaches (gval or 0) + (aval or 0) (lines 93-98)
EntryAdds(g) ==
    /\ g.isdict
    /\ ~EntryHasPoints(g)
    /\ (Get(g.goals).k # "none" \/ Get(g.assists).k # "none")

\* (gval or 0) + (aval or 0) raises TypeError, outside any try: str + number
EntryRaises(g) == EntryAdds(g) /\ (EntryG(g).k = "text") # (EntryA(g).k = "text")

\* pts of the entry (lines 89-98): None when there is nothing to use
EntryPts(g) ==
    IF ~g.isdict THEN None
    ELSE IF EntryHasPoints(g) THEN g.points
    ELSE IF EntryAdds(g)
         THEN (IF EntryG(g).k = "text" THEN Text ELSE Add(EntryG(g), EntryA(g)))
    ELSE None

\* float(pts) succeeds (lines 99-104)
EntryUsable(g) == IsNumeric(EntryPts(g))

\* the usable entries among the first GameLogCap entries of the game log
UsablePts(gl) ==
    LET first == Prefix(gl, GameLogCap)
    IN  SelectSeq([i \in 1..Len(first) |-> EntryPts(first[i])], IsNumeric)

\* int(x) for a number: truncation toward zero
Trunc(x) == IF x.n >= 0 THEN x.n \div x.d ELSE -((-x.n) \div x.d)

\* float(x) succeeds for x
FloatOk(x) == IsNumeric(x)

\* the game-log sum divided by the number of entries looked at
GameLogRateByLength(raw) ==
    LET u == UsablePts(raw.gameLog)
    IN  IF Len(u) > 0
        THEN Div(SumSeq(u), IntV(Len(Prefix(raw.gameLog, GameLogCap))))
        ELSE None

\* lines 82-106: the rate from the game log, None when it yields none
GameLogRate(raw) ==
    LET u == UsablePts(raw.gameLog)
    IN  IF Len(u) > 0 THEN Div(SumSeq(u), IntV(Len(u))) ELSE None

\* `raw.get("recentGames") in raw`: is the VALUE of recentGames a key of raw?
\* Keys are field names (strings), so a number or None never is; the text
\* value modelled here is not a field name either.
RecentGamesIsKey(raw) == FALSE

\* lines 108-126: the if / elif / elif chain over the aggregate fields
AggregateRate(raw) ==
    IF raw.last5Points.k \notin {"absent", "none"}
    THEN (IF FloatOk(raw.last5Points) THEN Div(raw.last5Points, IntV(5)) ELSE None)
    ELSE IF raw.recentPoints.k # "absent" /\ RecentGamesIsKey(raw)
              /\ Truthy(Get(raw.recentGames))
    THEN (IF FloatOk(raw.recentPoints) /\ IsNum(raw.recentGames)
             /\ Trunc(raw.recentGames) # 0
          THEN Div(raw.recentPoints, IntV(Trunc(raw.recentGames))) ELSE None)
    ELSE IF raw.lastFive # <<>>
    THEN LET last == SelectSeq(raw.lastFive, LAMBDA x : x.k # "none")
         IN  IF \A i \in 1..Len(last) : FloatOk(last[i])
             THEN (IF Len(last) > 0 THEN Div(SumSeq(last), IntV(Len(last))) ELSE None)
             ELSE None
    ELSE None

\* lines 128-132: season points / max(1, games played); 0.0 on any exception
\* (float(None), float(text), int(None), int(text))
FallbackRate(raw) ==
    LET pts == IF raw.points.k = "absent" THEN IntV(0) ELSE raw.points
        gp  == IF raw.gamesPlayed.k = "absent" THEN IntV(1) ELSE raw.gamesPlayed
    IN  IF IsNum(pts) /\ IsNum(gp)
        THEN Div(pts, IntV(IF Trunc(gp) > 1 THEN Trunc(gp) ELSE 1))
        ELSE IntV(0)

\* lines 78-133: form5 of one raw record
Form5(raw) ==
    LET v1 == GameLogRate(raw)
        v2 == IF v1.k = "none" THEN AggregateRate(raw) ELSE v1
    IN  IF v2.k = "none" THEN FallbackRate(raw) ELSE v2

\* pd.to_numeric(column, errors="coerce").fillna(0): text, None and a missing
\* cell become 0
ToNumeric0(v) == IF IsNum(v) THEN v ELSE IntV(0)

\* clip with the upper bound left out
ClipLowOnly(v, lo, hi) == IF Lt(v, lo) THEN lo ELSE v

\* Series.clip(lo, hi): NaN stays NaN
Clip(v, lo, hi) == IF Lt(v, lo) THEN lo ELSE IF Lt(hi, v) THEN hi ELSE v

FormMin == Num(1, 2)
FormMax == Num(3, 2)

\* the row with a player who has recent points and no season rate taken as
\* above their season rate
PlayerRowHotWithoutSeason(raw) ==
    LET gp   == Trunc(ToNumeric0(raw.gamesPlayed))
        pts  == ToNumeric0(raw.points)
        ppg  == IF gp > 0 THEN Div(pts, IntV(gp)) ELSE IntV(0)
        f5   == Form5(raw)
        ff   == IF Lt(IntV(0), ppg) THEN Div(f5, ppg)
                ELSE IF Lt(IntV(0), f5) THEN FormMax ELSE IntV(1)
    IN  [raw          |-> raw,
         team_abbrev  |-> raw.team,
         gamesPlayed  |-> gp,
         points       |-> pts,
         ppg          |-> ppg,
         form5_ppg    |-> f5,
         form_factor  |-> Clip(ff, FormMin, FormMax)]

\* lines 71-74 and 135-139: one row of the player table
PlayerRow(raw) ==
    LET gp   == Trunc(ToNumeric0(raw.gamesPlayed))
        pts  == ToNumeric0(raw.points)
        ppg  == IF gp > 0 THEN Div(pts, IntV(gp)) ELSE IntV(0)
        f5   == Form5(raw)
        ff   == IF Lt(IntV(0), ppg) THEN Div(f5, ppg) ELSE IntV(1)
    IN  [raw          |-> raw,
         team_abbrev  |-> raw.team,
         gamesPlayed  |-> gp,
         points       |-> pts,
         ppg          |-> ppg,
         form5_ppg    |-> f5,
         form_factor  |-> Clip(ff, FormMin, FormMax)]

\* df.get("gamesPlayed", 0) / df.get("points", 0) is the scalar 0 when no record
\* has the key; pd.to_numeric(0) is then a scalar, and .fillna raises
\* AttributeError (lines 71-72).  Line 98 raises TypeError for a str goal count.
ColumnMissing(raw, f) == \A i \in 1..Len(raw) : raw[i][f].k = "absent"

build_player_df_raises(raw) ==
    \/ ColumnMissing(raw, "gamesPlayed")
    \/ ColumnMissing(raw, "points")
    \/ \E i \in 1..Len(raw) :
          \E j \in 1..Len(Prefix(raw[i].gameLog, GameLogCap)) :
              EntryRaises(raw[i].gameLog[j])

build_player_df(raw) == [i \in 1..Len(raw) |-> PlayerRow(raw[i])]

(***************************************************************************)
(* Form adjustment: apply_player_form_adjustment                           *)
(***************************************************************************)
TeamCap       == 9
TeamFactorMin == Num(85, 100)
TeamFactorMax == Num(115, 100)

Min2(a, b) == IF a < b THEN a ELSE b

\* line 185: the rows of the team, in table order
TeamPlayers(df, abbrev) ==
    {i \in 1..Len(df) : Upper(df[i].team_abbrev) = Upper(abbrev)}

\* line 189: the team's rows with games played > 0
Played(df, abbrev) == {i \in TeamPlayers(df, abbrev) : df[i].gamesPlayed > 0}

\* the first n indices of a set of row indices (DataFrame.head(n))
HeadOf(S, n) == {i \in S : Cardinality({j \in S : j < i}) < n}

\* the first 9 rows that have played, in table order, without the sort
CandidateSetsUnsorted(df, abbrev) ==
    LET played == Played(df, abbrev)
    IN  IF played = {}
        THEN {HeadOf(TeamPlayers(df, abbrev), TeamCap)}
        ELSE {HeadOf(played, TeamCap)}

\* lines 189-191: the row sets that sort_values(by gamesPlayed, descending)
\* .head(9) can give (the sort does not fix the order of equal keys); the
\* first 9 rows of the team when nobody has played
CandidateSets(df, abbrev) ==
    LET played == Played(df, abbrev)
    IN  IF played = {}
        THEN {HeadOf(TeamPlayers(df, abbrev), TeamCap)}
        ELSE {S \in SUBSET played :
                /\ Cardinality(S) = Min2(TeamCap, Cardinality(played))
                /\ \A i \in S : \A j \in played \ S :
                       df[i].gamesPlayed >= df[j].gamesPlayed}

RECURSIVE SumFactors(_, _)
SumFactors(df, S) ==
    IF S = {} THEN IntV(0)
    ELSE LET i == CHOOSE x \in S : TRUE
         IN  Add(df[i].form_factor, SumFactors(df, S \ {i}))

\* lines 183-187: no adjustment for an empty abbreviation or an unknown team
NoTeam(df, abbrev) == abbrev = "" \/ TeamPlayers(df, abbrev) = {}

\* the team factor with the clamp left out
FactorOfUnclamped(df, S) == Div(SumFactors(df, S), IntV(Cardinality(S)))

\* lines 193-195 for the candidate rows S
FactorOf(df, S) ==
    LET avg_factor == Div(SumFactors(df, S), IntV(Cardinality(S)))
    IN  PyMax(TeamFactorMin, PyMin(TeamFactorMax, avg_factor))

(***************************************************************************)
(* Positions: a position value is [k, s, abbrev, name] with k in "none",   *)
(* "str" (the text s), "dict" (code s, abbrev, name) or "other"; texts are *)
(* sequences of characters, <<>> for an empty, null or absent text.        *)
(***************************************************************************)
UpperChar(c) ==
    CASE c = "g" -> "G"
      [] c = "o" -> "O"
      [] c = "a" -> "A"
      [] c = "l" -> "L"
      [] c = "i" -> "I"
      [] c = "e" -> "E"
      [] c = "w" -> "W"
      [] OTHER -> c

UpperText(t) == [i \in 1..Len(t) |-> UpperChar(t[i])]

\* sub in t
Contains(sub, t) ==
    \E i \in 0..(Len(t) - Len(sub)) : SubSeq(t, i + 1, i + Len(sub)) = sub

PosTruthy(p) ==
    CASE p.k = "none" -> FALSE
      [] p.k = "str" -> p.s # <<>>
      [] OTHER -> TRUE

NoPos == [k |-> "none", s |-> <<>>, abbrev |-> <<>>, name |-> <<>>]

\* goalie detection that forgets .upper()
_is_goalie_case_sensitive(raw) ==
    LET pos == IF PosTruthy(raw.position) THEN raw.position
               ELSE IF PosTruthy(raw.pos) THEN raw.pos
               ELSE [k |-> "dict", s |-> <<>>, abbrev |-> <<>>, name |-> <<>>]
    IN  CASE pos.k = "dict" ->
               LET code == IF pos.s # <<>> THEN pos.s
                           ELSE IF pos.abbrev # <<>> THEN pos.abbrev
                           ELSE pos.name
               IN  Contains(<<"G">>, code)
          [] pos.k = "str" -> Contains(<<"G">>, pos.s)
          [] OTHER -> FALSE

\* lines 214-221
_is_goalie(raw) ==
    LET pos == IF PosTruthy(raw.position) THEN raw.position
               ELSE IF PosTruthy(raw.pos) THEN raw.pos
               ELSE [k |-> "dict", s |-> <<>>, abbrev |-> <<>>, name |-> <<>>]
    IN  CASE pos.k = "dict" ->
               LET code == UpperText(IF pos.s # <<>> THEN pos.s
                                     ELSE IF pos.abbrev # <<>> THEN pos.abbrev
                                     ELSE pos.name)
               IN  Contains(<<"G">>, code) \/ Contains(<<"G", "O", "A", "L">>, code)
          [] pos.k = "str" ->
               LET p == UpperText(pos.s)
               IN  Contains(<<"G">>, p) \/ Contains(<<"G", "O", "A", "L">>, p)
          [] OTHER -> FALSE

(***************************************************************************)
(* Player effectiveness ranker: _effective_players_for_game                *)
(***************************************************************************)
\* lines 224-233: numbers pass, a str is read by float(), None and a str
\* float() rejects give the default
_safe_num(x, default) ==
    CASE IsNumeric(Get(x)) -> Get(x)
      [] x.k = "numtext" -> Num(x.n, x.d)
      [] OTHER -> default

\* the seconds of "MM:SS" taken as hundredths of a minute
_parse_toi_decimal(toi) ==
    CASE IsNumeric(Get(toi)) -> Get(toi)
      [] toi.k = "mmss" -> Add(IntV(toi.n), Div(IntV(toi.d), IntV(100)))
      [] toi.k = "numtext" -> Num(toi.n, toi.d)
      [] OTHER -> IntV(0)

\* lines 236-252: None gives 0; a number is the minutes; a str with a ':' is
\* split at the first ':' into float(mm) + float(ss) / 60, and gives 0 when
\* a part is not a number; any other str is read by float(), 0 on failure
_parse_toi(toi) ==
    CASE IsNumeric(Get(toi)) -> Get(toi)
      [] toi.k = "mmss" -> Add(IntV(toi.n), Div(IntV(toi.d), IntV(60)))
      [] toi.k = "numtext" -> Num(toi.n, toi.d)
      [] OTHER -> IntV(0)

\* a team reference of a game is [k, abbrev], k in "dict", "null", "absent";
\* (game.get(side) or {}).get("abbrev") or ""  (lines 268-269)
AbbrevOf(ref) == IF ref.k = "dict" THEN ref.abbrev ELSE ""

GamesCap == 82

\* gp_penalty charged for games played below 5
gp_penalty_below_five(gp) == IF gp < 5 THEN Num(25, 100) ELSE IntV(0)

\* line 331: gp_penalty
gp_penalty(gp) == IF gp < 3 THEN Num(25, 100) ELSE IntV(0)

\* line 336: tie_break
tie_break(ppg, gp) == Add(Mul(ppg, Num(2, 1000)), Num(Min2(gp, GamesCap), 1000))

\* lines 283-355: the ranking row of table row r
RankRow(r) ==
    LET raw   == r.raw
        gp    == r.gamesPlayed
        form5 == r.form5_ppg
        ppg   == r.ppg
        shots_total == _safe_num(raw.shots, IntV(0))
        sog_total   == _safe_num(raw.sog, IntV(0))
        hits_total  == _safe_num(raw.hits, IntV(0))
        blocks_total == _safe_num(raw.blocks, IntV(0))
        plus_minus  == _safe_num(raw.plusMinus, IntV(0))
        pim         == _safe_num(raw.pim, IntV(0))
        corsi_pct   == _safe_num(raw.corsi, IntV(50))
        toi_min     == _parse_toi(raw.toi)
        shots_pg  == IF gp > 0 THEN Div(shots_total, IntV(gp)) ELSE IntV(0)
        sog_pg    == IF gp > 0 THEN Div(sog_total, IntV(gp)) ELSE IntV(0)
        hits_pg   == IF gp > 0 THEN Div(hits_total, IntV(gp)) ELSE IntV(0)
        blocks_pg == IF gp > 0 THEN Div(blocks_total, IntV(gp)) ELSE IntV(0)
        pim_pg    == IF gp > 0 THEN Div(pim, IntV(gp)) ELSE pim
        form_component == Add(Mul(Num(40, 100), form5), Mul(Num(15, 100), ppg))
        activity_component == Add(Mul(Num(12, 100), shots_pg), Mul(Num(8, 100), sog_pg))
        toi_component == Mul(Num(10, 100), Div(toi_min, IntV(20)))
        possession_component == Mul(Num(8, 100), Div(Sub(corsi_pct, IntV(50)), IntV(50)))
        defense_component == Mul(Num(7, 100), Div(Add(hits_pg, blocks_pg), IntV(2)))
        base_score == Add(Add(Add(Add(form_component, activity_component),
                                  toi_component), possession_component),
                          defense_component)
        plus_adj    == Mul(Num(6, 100), plus_minus)
        pim_penalty == Mul(Num(3, 100), pim_pg)
        adj_score   == Sub(Sub(Add(base_score, plus_adj), pim_penalty),
                           gp_penalty(gp))
    IN  [name        |-> raw.name,
         team        |-> Upper(r.team_abbrev),
         raw         |-> raw,
         gamesPlayed |-> gp,
         form5_ppg   |-> form5,
         ppg         |-> ppg,
         shots_pg    |-> shots_pg,
         toi_min     |-> toi_min,
         plusMinus   |-> plus_minus,
         pim         |-> pim,
         base_score  |-> base_score,
         adj_score   |-> Add(adj_score, tie_break(ppg, gp))]

\* lines 268-280: the table rows of the two teams that are not goalies
Eligible(game, df) ==
    LET team_codes == {Upper(AbbrevOf(game.homeTeam)), Upper(AbbrevOf(game.awayTeam))}
    IN  {i \in 1..Len(df) : /\ Upper(df[i].team_abbrev) \in team_codes
                            /\ ~_is_goalie(df[i].raw)}

\* the eligible rows in any order: the sort of line 362 left out
RankingsUnsorted(game, df) ==
    LET E == Eligible(game, df)
        n == Cardinality(E)
    IN  {[i \in 1..n |-> RankRow(df[p[i]])] :
            p \in {q \in [1..n -> E] : \A i, j \in 1..n : i # j => q[i] # q[j]}}

\* lines 357-362: the rankings sort_values(by adj_score, descending) can give
\* (the sort does not fix the order of equal scores)
Rankings(game, df) ==
    LET E == Eligible(game, df)
        n == Cardinality(E)
    IN  {[i \in 1..n |-> RankRow(df[p[i]])] :
            p \in {q \in [1..n -> E] :
                     /\ \A i, j \in 1..n : i # j => q[i] # q[j]
                     /\ \A i \in 1..(n - 1) :
                          Le(RankRow(df[q[i + 1]]).adj_score,
                             RankRow(df[q[i]]).adj_score)}}

(***************************************************************************)
(* Cold-player explanation: _describe_least_effective                      *)
(*                                                                         *)
(* The explanation is one of four sentence frames (random.choice) around   *)
(* the same comma-separated reasons; the reasons, in order, are modelled.  *)
(***************************************************************************)
SeqIf(c, s) == IF c THEN <<s>> ELSE <<>>

\* the form reason chosen without the guard season_ppg > 0
_describe_least_effective_unguarded(p) ==
    LET season_ppg == Or(p.ppg, IntV(0))
        recent     == Or(p.form5_ppg, IntV(0))
    IN  IF Le(recent, Mul(season_ppg, Num(6, 10)))
        THEN <<"recent form down">>
        ELSE <<"no scoring this season">>

\* lines 367-402 for a row p of the ranking
_describe_least_effective(p) ==
    LET gp         == p.gamesPlayed
        season_ppg == Or(p.ppg, IntV(0))
        recent     == Or(p.form5_ppg, IntV(0))
        shots_pg   == Or(p.shots_pg, IntV(0))
        toi        == Or(p.toi_min, IntV(0))
        plus       == Or(p.plusMinus, IntV(0))
        pim        == Or(p.pim, IntV(0))
        form ==
            IF Lt(IntV(0), season_ppg) /\ Lt(recent, Mul(season_ppg, Num(6, 10)))
            THEN <<"recent form down">>
            ELSE IF Eq(recent, IntV(0)) /\ Eq(season_ppg, IntV(0))
            THEN <<"no scoring this season">>
            ELSE IF Eq(recent, IntV(0)) /\ Lt(IntV(0), season_ppg)
            THEN <<"no points in last 5">>
            ELSE <<>>
        reasons ==
            form
            \o SeqIf(gp < 5, "small sample")
            \o SeqIf(Lt(IntV(0), toi) /\ Lt(toi, IntV(10)), "limited usage")
            \o SeqIf(Lt(shots_pg, Num(1, 2)), "low shot volume")
            \o SeqIf(Lt(plus, IntV(0)), "negative +/-")
            \o SeqIf(Lt(IntV(5), pim), "high PIM")
    IN  IF reasons = <<>> THEN <<"adj score low due to model weights">>
        ELSE reasons

(***************************************************************************)
(* Outcome simulator: monte_carlo_game                                     *)
(***************************************************************************)
\* away wins counted with <= instead of <
CountLe(a, b) == Cardinality({i \in 1..Len(a) : a[i] <= b[i]})

\* np.sum(a > b), np.sum(a < b), np.sum(a == b) over the trials
CountGt(a, b) == Cardinality({i \in 1..Len(a) : a[i] > b[i]})
CountLt(a, b) == Cardinality({i \in 1..Len(a) : a[i] < b[i]})
CountEq(a, b) == Cardinality({i \in 1..Len(a) : a[i] = b[i]})

RECURSIVE SumInts(_)
SumInts(q) == IF q = <<>> THEN 0 ELSE Head(q) + SumInts(Tail(q))

\* lines 162-177 for the drawn samples home_goals, away_goals (sims >= 1)
MonteCarloResult(home_goals, away_goals, sims) ==
    LET home_wins == CountGt(home_goals, away_goals)
        away_wins == CountLt(home_goals, away_goals)
        draws     == CountEq(home_goals, away_goals)
        avg_home  == Num(SumInts(home_goals), sims)
        avg_away  == Num(SumInts(away_goals), sims)
    IN  [home_win_prob   |-> Num(home_wins, sims),
         away_win_prob   |-> Num(away_wins, sims),
         draw_prob       |-> Num(draws, sims),
         avg_home_goals  |-> avg_home,
         avg_away_goals  |-> avg_away,
         avg_total_goals |-> Add(avg_home, avg_away)]

\* rng.poisson(lam, sims) raises ValueError for lam < 0 or NaN (lines 160-161)
PoissonRaises(l) == ~Le(IntV(0), l)

\* a Poisson draw that can be positive at rate 0
SupportAtZeroOpen(l, maxGoals) == 0..maxGoals

\* the goal counts rng.poisson(l, .) can draw, up to maxGoals: Poisson(0) is 0
Support(l, maxGoals) == IF Eq(l, IntV(0)) THEN {0} ELSE 0..maxGoals

\* a result with every entry NaN: 0 / 0 and the mean of an empty sample
NaNResult == [home_win_prob |-> NaN, away_win_prob |-> NaN, draw_prob |-> NaN,
              avg_home_goals |-> NaN, avg_away_goals |-> NaN,
              avg_total_goals |-> NaN]

\* lines 159-177: what a call monte_carlo_game(lam_home, lam_away, sims) can
\* end with.  The generator is seeded from fresh entropy on every call (line
\* 159), so every sample of the support is possible; a negative sims or an
\* invalid lambda raises ValueError; sims = 0 divides 0 by 0.
MonteCarloOutcomes(lam_home, lam_away, sims, maxGoals) ==
    IF sims < 0 \/ PoissonRaises(lam_home) \/ PoissonRaises(lam_away)
    THEN {[raised |-> TRUE, result |-> NaNResult]}
    ELSE IF sims = 0
    THEN {[raised |-> FALSE, result |-> NaNResult]}
    ELSE {[raised |-> FALSE, result |-> MonteCarloResult(hg, ag, sims)] :
             hg \in [1..sims -> Support(lam_home, maxGoals)],
             ag \in [1..sims -> Support(lam_away, maxGoals)]}

(***************************************************************************)
(* Bounds and input sets                                                   *)
(***************************************************************************)
MaxRateK == 2      \* per-game rates handed to the rate model: 7k/2, k <= MaxRateK
MaxGP    == 1      \* games played of a raw team record: 0..MaxGP
MaxGA    == 1      \* goals against of a raw team record: 0..MaxGA
MaxPGP   == 2      \* games played of the varied raw player record: 0..MaxPGP
MaxPts   == 2      \* season points of the varied raw player record: 0..MaxPts
MaxSims  == 2      \* trial counts of a direct monte_carlo_game call: -1..MaxSims
MaxGoals == 1      \* goal counts a Poisson draw can give: 0..MaxGoals
ReportSims == 1    \* trials per sample in a report (the code draws 3000)

RateValues == {Absent, None, NaN} \cup {Num(7 * k, 2) : k \in -1..MaxRateK}
AdvValues  == {DefaultAdv, IntV(0), IntV(-10), IntV(10), NaN}

NoRow == [abbrev |-> "", gamesPlayed |-> None, points |-> None, goalFor |-> None,
          goalAgainst |-> None, goalDiff |-> None,
          gf_per_game |-> Absent, ga_per_game |-> Absent]

\* a team dict that carries only the two rates
RateRow(gf, ga) == [NoRow EXCEPT !.gf_per_game = gf, !.ga_per_game = ga]

TeamNames == <<"MTL", "tor", "BOS">>

TeamRecs(i) ==
    [abrev            : {TeamNames[i]},
     gamesPlayed      : {None, Text} \cup {IntV(g) : g \in 0..MaxGP},
     goalAgainst      : {Text} \cup {IntV(a) : a \in 0..MaxGA},
     goalDifferential : {None, IntV(-1)},
     points           : {IntV(4)}]

\* teamsStats.json: no team (or no file), one team, two teams
TeamTables ==
    {<<>>} \cup {<<a>> : a \in TeamRecs(1)}
           \cup {<<a, b>> : a \in TeamRecs(1), b \in TeamRecs(2)}

Abbrevs == {"MTL", "mtl", "TOR", "BOS", ""}

\* ---- raw player records ----
Txt(t) == [k |-> "str", s |-> t, abbrev |-> <<>>, name |-> <<>>]
PosDict(code, ab, nm) == [k |-> "dict", s |-> code, abbrev |-> ab, name |-> nm]
OtherPos == [k |-> "other", s |-> <<>>, abbrev |-> <<>>, name |-> <<>>]

Goalie == <<"G", "o", "a", "l", "i", "e">>

\* the position values tried: skater and goaltender codes as the collector
\* writes them ("C", "L", "D", "G", "Goalie"), lower case, dict forms, junk
PosValues ==
    {NoPos, OtherPos, Txt(<<"C">>), Txt(<<"L">>), Txt(<<"D">>), Txt(<<"G">>),
     Txt(<<"g">>), Txt(Goalie), PosDict(<<"G">>, <<>>, <<>>),
     PosDict(<<>>, <<"g">>, <<>>), PosDict(<<>>, <<>>, Goalie),
     PosDict(<<"C">>, <<>>, <<>>), PosDict(<<>>, <<>>, <<>>)}

Entry(pts, g, a) == [isdict |-> TRUE, points |-> pts, goals |-> g, assists |-> a]
NotADict == [isdict |-> FALSE, points |-> Absent, goals |-> Absent, assists |-> Absent]

NoRecent == [gameLog |-> <<>>, last5Points |-> Absent, recentPoints |-> Absent,
             recentGames |-> Absent, lastFive |-> <<>>, last5Games |-> <<>>]

Zero5 == [i \in 1..5 |-> Entry(IntV(0), Absent, Absent)]

\* the recent-form data tried
RecentVariants ==
    {NoRecent,
     [NoRecent EXCEPT !.gameLog = <<Entry(IntV(6), Absent, Absent)>>],
     [NoRecent EXCEPT !.gameLog = Zero5],
     [NoRecent EXCEPT !.gameLog = <<Entry(Absent, IntV(0), IntV(0)),
                                    Entry(IntV(0), IntV(1), Absent)>>],
     [NoRecent EXCEPT !.gameLog = <<Entry(Absent, IntV(1), None), NotADict,
                                    Entry(Text, Absent, Absent)>>],
     [NoRecent EXCEPT !.gameLog = <<Entry(None, Text, IntV(1))>>],
     [NoRecent EXCEPT !.gameLog =
         <<Entry(IntV(2), Absent, Absent), NotADict,
           Entry(Absent, Absent, Absent), Entry(IntV(1), IntV(4), Absent),
           Entry(Absent, IntV(1), IntV(2)), Entry(IntV(9), Absent, Absent)>>],
     [NoRecent EXCEPT !.gameLog = <<Entry(Absent, Text, Text)>>,
                      !.last5Points = IntV(5)],
     [NoRecent EXCEPT !.last5Points = IntV(1)],
     [NoRecent EXCEPT !.last5Points = Text, !.lastFive = <<IntV(2)>>],
     [NoRecent EXCEPT !.recentPoints = IntV(4), !.recentGames = IntV(2)],
     [NoRecent EXCEPT !.lastFive = <<IntV(3), None, IntV(0)>>],
     [NoRecent EXCEPT !.lastFive = <<IntV(3), Text>>],
     \* the shape the collector writes (collector.py, line 349)
     [NoRecent EXCEPT !.last5Games = <<Entry(IntV(3), IntV(1), IntV(2)),
                                       Entry(IntV(1), IntV(1), IntV(0))>>]}

MkPlayer(name, team, gp, pts, position, pos, recent) ==
    [name |-> name, team |-> team, gamesPlayed |-> gp, points |-> pts,
     position |-> position, pos |-> pos,
     gameLog |-> recent.gameLog, last5Points |-> recent.last5Points,
     recentPoints |-> recent.recentPoints, recentGames |-> recent.recentGames,
     lastFive |-> recent.lastFive, last5Games |-> recent.last5Games,
     shots |-> Absent, sog |-> Absent, hits |-> Absent, blocks |-> Absent,
     plusMinus |-> Absent, pim |-> Absent, corsi |-> Absent, toi |-> Absent]

\* the season aggregates of a raw record
NoStats == [shots |-> Absent, sog |-> Absent, hits |-> Absent, blocks |-> Absent,
            plusMinus |-> Absent, pim |-> Absent, corsi |-> Absent, toi |-> Absent]

\* the aggregates tried: none, a full set, penalty-heavy, text-valued, and
\* time on ice as "MM:SS", as unparseable text, null, numeric text, a number
StatVariants ==
    {NoStats,
     [shots |-> IntV(6), sog |-> IntV(4), hits |-> IntV(2), blocks |-> IntV(2),
      plusMinus |-> IntV(3), pim |-> IntV(4), corsi |-> IntV(55),
      toi |-> Num(37, 2)],
     [NoStats EXCEPT !.plusMinus = IntV(-2), !.pim = IntV(12), !.toi = MMSS(18, 30)],
     [NoStats EXCEPT !.plusMinus = NumText(2, 1), !.pim = Text, !.toi = Text],
     [NoStats EXCEPT !.toi = MMSS(0, 45)],
     [NoStats EXCEPT !.toi = ColonText],
     [NoStats EXCEPT !.toi = None, !.pim = None],
     [NoStats EXCEPT !.toi = NumText(37, 2)],
     [NoStats EXCEPT !.toi = IntV(9)]}

WithStats(p, st) ==
    [p EXCEPT !.shots = st.shots, !.sog = st.sog, !.hits = st.hits,
              !.blocks = st.blocks, !.plusMinus = st.plusMinus, !.pim = st.pim,
              !.corsi = st.corsi, !.toi = st.toi]

PGPValues == {Absent, Text} \cup {IntV(g) : g \in 0..MaxPGP}
PtsValues == {Absent, None} \cup {IntV(q) : q \in 0..MaxPts}

\* the varied player: every games-played / points / recent-form combination
\* for a centre, every team / position combination, and every season
\* aggregate variant for games played below and above the sample threshold
VariedPlayers ==
    {MkPlayer("p1", "MTL", gp, pts, Txt(<<"C">>), NoPos, rec) :
        gp \in PGPValues, pts \in PtsValues, rec \in RecentVariants}
    \cup
    {MkPlayer("p1", team, IntV(g), IntV(1), position, NoPos, NoRecent) :
        team \in {"MTL", "tor"}, g \in {0, MaxPGP}, position \in PosValues}
    \cup
    {MkPlayer("p1", "MTL", IntV(1), IntV(1), NoPos, pos, NoRecent) :
        pos \in {Txt(<<"G">>), Txt(<<"D">>)}}
    \cup
    {WithStats(MkPlayer("p1", "MTL", IntV(g), IntV(2), Txt(<<"C">>), NoPos,
                        NoRecent), st) :
        g \in {0, 2, 3, MaxPGP + 2}, st \in StatVariants}

\* the rest of the table
Tails ==
    {<<>>,
     <<MkPlayer("p2", "MTL", IntV(3), IntV(3), Txt(<<"G">>), NoPos,
                [NoRecent EXCEPT !.last5Points = IntV(0)])>>,
     <<[MkPlayer("p2", "TOR", IntV(2), IntV(4), Txt(<<"D">>), NoPos, NoRecent)
           EXCEPT !.toi = Num(37, 2)],
       MkPlayer("p3", "MTL", IntV(0), Absent, Txt(Goalie), NoPos, NoRecent)>>}

PlayerTables == {<<p>> \o t : p \in VariedPlayers, t \in Tails} \cup {<<>>}

\* ---- rosters larger than the cap of team_factor ----
RosterSize == TeamCap + 2

\* a roster of one team: player i has gps[i] games played and as many season
\* points; every third player has a scoreless last-5 total
Roster(team, gps) ==
    [i \in 1..Len(gps) |->
        MkPlayer(ToString(i), team, IntV(gps[i]), IntV(gps[i]), Txt(<<"C">>),
                 NoPos,
                 IF i % 3 = 0 THEN [NoRecent EXCEPT !.last5Points = IntV(0)]
                 ELSE NoRecent)]

\* games played all different; equal for all but one who has not played; one
\* more than the cap, in descending order with a tie at the cut; fewer than
\* the cap, next to another team; nobody has played, next to a team whose
\* players have recent points but no game played
LineupTables ==
    {Roster("MTL", [i \in 1..RosterSize |-> i]),
     Roster("MTL", [i \in 1..RosterSize |-> IF i = 1 THEN 0 ELSE 5]),
     Roster("MTL", [i \in 1..(TeamCap + 1) |->
                       IF i >= TeamCap THEN 2 ELSE RosterSize - i]),
     Roster("MTL", <<3, 0, 1>>) \o Roster("TOR", <<0, 4>>),
     Roster("MTL", [i \in 1..RosterSize |-> 0])
        \o <<MkPlayer("b1", "BOS", IntV(0), IntV(0), Txt(<<"C">>), NoPos,
                      [NoRecent EXCEPT !.last5Points = IntV(3)]),
             MkPlayer("b2", "BOS", IntV(0), IntV(2), Txt(<<"D">>), NoPos,
                      [NoRecent EXCEPT !.gameLog = <<Entry(IntV(6), Absent, Absent)>>])>>}

TeamRef(ab) == [k |-> "dict", abbrev |-> ab]
Game(h, a) == [homeTeam |-> TeamRef(h), awayTeam |-> TeamRef(a)]
NoGame == [homeTeam |-> [k |-> "absent", abbrev |-> ""],
           awayTeam |-> [k |-> "absent", abbrev |-> ""]]

LamPairs == {<<IntV(3), Num(5, 2)>>, <<LamHomeMin, LamMax>>}

\* the lambdas of a direct monte_carlo_game call
MCLams == {<<IntV(0), IntV(0)>>, <<IntV(3), Num(5, 2)>>, <<IntV(-1), IntV(1)>>}

(***************************************************************************)
(* State before any call                                                   *)
(***************************************************************************)
NoXG == [called |-> FALSE, home |-> NoRow, away |-> NoRow, adv |-> None]
NoLam == <<None, None>>
NoAdj == [called |-> FALSE, home_ab |-> "", away_ab |-> "",
          lam_home |-> None, lam_away |-> None,
          home_set |-> {}, away_set |-> {},
          home_factor |-> None, away_factor |-> None,
          lam_home_adj |-> None, lam_away_adj |-> None]
NoEff == [called |-> FALSE, game |-> NoGame, ranking |-> <<>>,
          described |-> 0, reasons |-> <<>>]
NoResult == [home_win_prob |-> None, away_win_prob |-> None, draw_prob |-> None,
             avg_home_goals |-> None, avg_away_goals |-> None,
             avg_total_goals |-> None]
NoMC == [called |-> FALSE, lam_home |-> None, lam_away |-> None, sims |-> 0,
         raised |-> FALSE, result |-> NoResult]
NoArgs == [mode |-> "none", index |-> 0]
NoReport == [status |-> "none", exc |-> "none", game |-> NoGame,
             lam |-> NoLam, adj |-> NoAdj, mc |-> NoResult,
             ranking |-> <<>>, hot |-> <<>>, cold |-> <<>>,
             cold_reasons |-> <<>>,
             prob_over_5 |-> None, prob_over_6 |-> None]

Blank ==
    /\ exc = "none"
    /\ teams_raw = <<>> /\ teams_df = <<>>
    /\ players_raw = <<>> /\ players_df = <<>>
    /\ xg_in = NoXG /\ lam = NoLam
    /\ adj = NoAdj /\ eff = NoEff
    /\ mc = NoMC /\ mc_prev = NoMC
    /\ today = <<>> /\ args = NoArgs /\ gi = 0
    /\ report = NoReport

(***************************************************************************)
(* Operations                                                              *)
(***************************************************************************)
\* main, line 599: teams_df = build_team_df(teams_raw)
BuildTeamDf ==
    /\ pc = "start"
    /\ IF build_team_df_raises(teams_raw)
       THEN /\ exc' = "TypeError"
            /\ pc' = "crashed"
            /\ UNCHANGED teams_df
       ELSE /\ teams_df' = build_team_df(teams_raw)
            /\ pc' = "teams"
            /\ UNCHANGED exc
    /\ UNCHANGED <<teams_raw, players_raw, players_df, xg_in, lam, adj, eff,
                   mc, mc_prev, today, args, gi, report>>

\* main, line 600: players_df = build_player_df(players_raw)
BuildPlayerDf ==
    /\ pc = "teams"
    /\ IF build_player_df_raises(players_raw)
       THEN /\ exc' = IF ColumnMissing(players_raw, "gamesPlayed")
                         \/ ColumnMissing(players_raw, "points")
                      THEN "AttributeError" ELSE "TypeError"
            /\ pc' = "crashed"
            /\ UNCHANGED players_df
       ELSE /\ players_df' = build_player_df(players_raw)
            /\ pc' = "players"
            /\ UNCHANGED exc
    /\ UNCHANGED <<teams_raw, teams_df, players_raw, xg_in, lam, adj, eff,
                   mc, mc_prev, today, args, gi, report>>

\* teams_df[teams_df["abbrev"].str.upper() == ab.upper()] (lines 507-508)
TeamRowsOf(df, ab) == {i \in 1..Len(df) : Upper(df[i].abbrev) = Upper(ab)}
\* .iloc[0]
FirstOf(S) == CHOOSE i \in S : \A j \in S : i <= j

\* a direct call expected_goals_from_team_stats(home, away, home_adv)
CallExpectedGoals ==
    /\ pc = "start"
    /\ \E hgf, hga, agf, aga \in RateValues, adv \in AdvValues :
          /\ xg_in' = [called |-> TRUE, home |-> RateRow(hgf, hga),
                       away |-> RateRow(agf, aga), adv |-> adv]
          /\ lam' = expected_goals_from_team_stats(RateRow(hgf, hga),
                                                   RateRow(agf, aga), adv)
    /\ pc' = "rated"
    /\ UNCHANGED <<exc, teams_raw, teams_df, players_raw, players_df, adj, eff,
                   mc, mc_prev, today, args, gi, report>>

\* summarize_game, lines 507-518: the two rows are looked up in the team
\* table and handed to the rate model with the default home advantage
LookupAndRate ==
    /\ pc = "teams"
    /\ \E home_ab, away_ab \in {"MTL", "TOR"} :
          LET th == TeamRowsOf(teams_df, home_ab)
              ta == TeamRowsOf(teams_df, away_ab)
          IN  /\ th # {} /\ ta # {}
              /\ xg_in' = [called |-> TRUE, home |-> teams_df[FirstOf(th)],
                           away |-> teams_df[FirstOf(ta)], adv |-> DefaultAdv]
              /\ lam' = expected_goals_from_team_stats(teams_df[FirstOf(th)],
                            teams_df[FirstOf(ta)], DefaultAdv)
    /\ pc' = "rated"
    /\ UNCHANGED <<exc, teams_raw, teams_df, players_raw, players_df, adj, eff,
                   mc, mc_prev, today, args, gi, report>>

\* team_factor (lines 182-195): the rows averaged and the factor
TeamFactorChoices(df, abbrev) ==
    IF NoTeam(df, abbrev)
    THEN {[set |-> {}, factor |-> IntV(1)]}
    ELSE {[set |-> S, factor |-> FactorOf(df, S)] : S \in CandidateSets(df, abbrev)}

\* lines 197-201 for the two team factors hf, af
Adjusted(home_ab, away_ab, lam_home, lam_away, hf, af) ==
    [called |-> TRUE, home_ab |-> home_ab, away_ab |-> away_ab,
     lam_home |-> lam_home, lam_away |-> lam_away,
     home_set |-> hf.set, away_set |-> af.set,
     home_factor |-> hf.factor, away_factor |-> af.factor,
     lam_home_adj |-> Mul(lam_home, hf.factor),
     lam_away_adj |-> Mul(lam_away, af.factor)]

\* a call apply_player_form_adjustment(home_ab, away_ab, players_df, lam_home, lam_away)
ApplyPlayerFormAdjustment ==
    /\ pc = "players"
    /\ \E home_ab, away_ab \in Abbrevs, l \in LamPairs :
          \E hf \in TeamFactorChoices(players_df, home_ab),
             af \in TeamFactorChoices(players_df, away_ab) :
                adj' = Adjusted(home_ab, away_ab, l[1], l[2], hf, af)
    /\ pc' = "adjusted"
    /\ UNCHANGED <<exc, teams_raw, teams_df, players_raw, players_df, xg_in, lam,
                   eff, mc, mc_prev, today, args, gi, report>>

\* a call _effective_players_for_game(game, players_df)
EffectivePlayersForGame ==
    /\ pc = "players"
    /\ \E home_ab, away_ab \in Abbrevs :
          \E r \in Rankings(Game(home_ab, away_ab), players_df) :
              eff' = [NoEff EXCEPT !.called = TRUE, !.game = Game(home_ab, away_ab),
                                  !.ranking = r]
    /\ pc' = "ranked"
    /\ UNCHANGED <<exc, teams_raw, teams_df, players_raw, players_df, xg_in, lam,
                   adj, mc, mc_prev, today, args, gi, report>>

\* a call _describe_least_effective(p) for a row p of the ranking
DescribeLeastEffective ==
    /\ pc = "ranked"
    /\ \E i \in 1..Len(eff.ranking) :
          eff' = [eff EXCEPT !.described = i,
                             !.reasons = _describe_least_effective(eff.ranking[i])]
    /\ pc' = "described"
    /\ UNCHANGED <<exc, teams_raw, teams_df, players_raw, players_df, xg_in, lam,
                   adj, mc, mc_prev, today, args, gi, report>>

\* a call monte_carlo_game(lam_home, lam_away, sims)
MonteCarloGame ==
    /\ pc = "start"
    /\ \E l \in MCLams, sims \in -1..MaxSims :
          \E o \in MonteCarloOutcomes(l[1], l[2], sims, MaxGoals) :
              mc' = [called |-> TRUE, lam_home |-> l[1], lam_away |-> l[2],
                     sims |-> sims, raised |-> o.raised, result |-> o.result]
    /\ mc_prev' = mc
    /\ pc' = "simulated"
    /\ UNCHANGED <<exc, teams_raw, teams_df, players_raw, players_df, xg_in, lam,
                   adj, eff, today, args, gi, report>>

\* a second call with the arguments of the first
MonteCarloGameAgain ==
    /\ pc = "simulated"
    /\ \E o \in MonteCarloOutcomes(mc.lam_home, mc.lam_away, mc.sims, MaxGoals) :
          mc' = [mc EXCEPT !.raised = o.raised, !.result = o.result]
    /\ mc_prev' = mc
    /\ pc' = "repeated"
    /\ UNCHANGED <<exc, teams_raw, teams_df, players_raw, players_df, xg_in, lam,
                   adj, eff, today, args, gi, report>>

(***************************************************************************)
(* The report: summarize_game                                              *)
(***************************************************************************)
TopN == 3

\* f"{x:4.2f}" raises TypeError for None (line 476); int(x) raises for text
FormatRaises(row) ==
    \/ Get(row.gf_per_game).k \in {"none", "text"}
    \/ Get(row.ga_per_game).k \in {"none", "text"}
    \/ row.points.k = "text"

\* the orders sort_values(by adj_score, ascending) can give to the rows q
AscendingOrders(q) ==
    LET n == Len(q)
    IN  {[i \in 1..n |-> q[p[i]]] :
            p \in {f \in [1..n -> 1..n] :
                     /\ \A i, j \in 1..n : i # j => f[i] # f[j]
                     /\ \A i \in 1..(n - 1) :
                          Le(q[f[i]].adj_score, q[f[i + 1]].adj_score)}}

\* the cold lists without the filter on scores equal to 0
ColdListsAllScores(eff_df) == {Prefix(o, TopN) : o \in AscendingOrders(eff_df)}

\* lines 539-543: the cold lists possible for the ranking eff_df
ColdLists(eff_df) ==
    LET bottom_candidates ==
            SelectSeq(eff_df, LAMBDA r : ~Eq(r.adj_score, IntV(0)))
        pool == IF Len(bottom_candidates) < TopN THEN eff_df ELSE bottom_candidates
    IN  {Prefix(o, TopN) : o \in AscendingOrders(pool)}

\* the totals one entry of a tail sample can have: at most 5, 6, more than 6
\* (both lambdas of a report are positive, so every total can be drawn)
TotalValues == {5, 6, 7}

\* np.mean(sample > x) over ReportSims totals (lines 558-559)
TailProb(sample, x) ==
    Num(Cardinality({i \in 1..Len(sample) : sample[i] > x}), Len(sample))

\* the values np.mean(sample > x) can take over the samples that can be drawn
TailProbs(x) == {TailProb(t, x) : t \in [1..ReportSims -> TotalValues]}

\* line 493-494: game.get(side, {}).get("abbrev") or "" -- a null side has
\* no .get
SideRaises(game) == game.homeTeam.k = "null" \/ game.awayTeam.k = "null"

Raised(game, e) == [NoReport EXCEPT !.status = "raised", !.exc = e, !.game = game]

\* lines 528-560 once the lambdas l, the team factors hf, af and the ranking
\* r are known: the simulation, the hot and cold lists, the two tail samples
ReportsFor(game, l, hf, af, r) ==
    LET a == Adjusted(AbbrevOf(game.homeTeam), AbbrevOf(game.awayTeam),
                      l[1], l[2], hf, af)
    IN  {[status |-> IF Len(r) = 0 THEN "no skater data" ELSE "done",
          exc |-> IF o.raised THEN "ValueError" ELSE "none",
          game |-> game,
          lam |-> l,
          adj |-> a,
          mc |-> o.result,
          ranking |-> r,
          hot |-> Prefix(r, TopN),
          cold |-> c,
          cold_reasons |-> [i \in 1..Len(c) |-> _describe_least_effective(c[i])],
          prob_over_5 |-> p5,
          prob_over_6 |-> p6] :
            o \in MonteCarloOutcomes(a.lam_home_adj, a.lam_away_adj,
                                     ReportSims, MaxGoals),
            c \in ColdLists(r),
            p5 \in TailProbs(5),
            p6 \in TailProbs(6)}

\* lines 492-562: what summarize_game(game, tdf, pdf) can end with
SummarizeOutcomes(game, tdf, pdf) ==
    LET home_ab == AbbrevOf(game.homeTeam)
        away_ab == AbbrevOf(game.awayTeam)
        th == TeamRowsOf(tdf, home_ab)
        ta == TeamRowsOf(tdf, away_ab)
    IN  IF SideRaises(game) THEN {Raised(game, "AttributeError")}
        \* teams_df["abbrev"] of a table built from no record: no such column
        ELSE IF Len(tdf) = 0 THEN {Raised(game, "KeyError")}
        ELSE IF th = {} \/ ta = {}
        THEN {[NoReport EXCEPT !.status = "missing team stats", !.game = game]}
        ELSE LET home == tdf[FirstOf(th)]
                 away == tdf[FirstOf(ta)]
                 l == expected_goals_from_team_stats(home, away, DefaultAdv)
             IN  IF FormatRaises(home) \/ FormatRaises(away)
                 THEN {Raised(game, "TypeError")}
                 ELSE UNION {ReportsFor(game, l, hf, af, r) :
                                hf \in TeamFactorChoices(pdf, home_ab),
                                af \in TeamFactorChoices(pdf, away_ab),
                                r \in Rankings(game, pdf)}

\* ---- the inputs of a run of main ----
Team(ab, gp, ga, gd) ==
    [abrev |-> ab, gamesPlayed |-> gp, goalAgainst |-> ga,
     goalDifferential |-> gd, points |-> IntV(4)]

MainTeamTables ==
    {<<>>,
     <<Team("MTL", IntV(2), IntV(5), IntV(1))>>,
     <<Team("MTL", IntV(2), IntV(5), IntV(1)), Team("TOR", IntV(2), IntV(6), IntV(-2))>>,
     <<Team("MTL", IntV(2), IntV(5), IntV(1)), Team("TOR", IntV(0), IntV(0), None)>>,
     <<Team("MTL", None, None, None), Team("TOR", IntV(0), IntV(0), IntV(0))>>,
     <<Team("MTL", Text, IntV(5), IntV(1))>>}

Skater(name, team, gp, pts, rec) ==
    MkPlayer(name, team, IntV(gp), IntV(pts), Txt(<<"C">>), NoPos, rec)
Keeper(name, team, gp) ==
    MkPlayer(name, team, IntV(gp), Absent, Txt(<<"G">>), NoPos, NoRecent)

MainPlayerTables ==
    {<<>>,
     <<Keeper("g1", "MTL", 2), Keeper("g2", "TOR", 0)>>,
     <<Skater("s1", "BOS", 2, 2, NoRecent)>>,
     <<Skater("s1", "MTL", 4, 4, [NoRecent EXCEPT !.last5Points = IntV(0)]),
       Skater("s2", "TOR", 2, 0, NoRecent),
       Keeper("g1", "MTL", 2)>>,
     <<Skater("s1", "MTL", 4, 4, NoRecent),
       Skater("s2", "TOR", 4, 4, NoRecent),
       Skater("s3", "MTL", 0, 0, NoRecent),
       Skater("s4", "TOR", 3, 6, [NoRecent EXCEPT !.last5Points = IntV(5)]),
       Keeper("g1", "TOR", 2)>>}

\* ---- player tables for the hot and cold lists of one game MTL - TOR ----
\* a skater whose score is exactly 0: no game played (penalty 0.25, no
\* tie-break) and a recent rate of 0.625 (form component 0.25)
ZeroScore(name, team) ==
    MkPlayer(name, team, IntV(0), IntV(0), Txt(<<"C">>), NoPos,
             [NoRecent EXCEPT !.last5Points = Num(25, 8)])

\* six different non-zero scores; three non-zero scores and two zero scores;
\* two non-zero scores and two zero scores; three equal scores and a lower
\* one; one skater; goalies only
ReportPlayerTables ==
    {<<Skater("a1", "MTL", 4, 8, NoRecent), Skater("a2", "TOR", 4, 4, NoRecent),
       Skater("a3", "MTL", 4, 2, NoRecent), Skater("a4", "TOR", 4, 0, NoRecent),
       Skater("a5", "MTL", 3, 3, NoRecent), Skater("a6", "TOR", 0, 0, NoRecent)>>,
     <<Skater("b1", "MTL", 4, 8, NoRecent), ZeroScore("z1", "TOR"),
       Skater("b2", "TOR", 4, 4, NoRecent), ZeroScore("z2", "MTL"),
       Skater("b3", "MTL", 4, 2, NoRecent)>>,
     <<ZeroScore("z1", "MTL"), Skater("c1", "TOR", 4, 8, NoRecent),
       Skater("c2", "MTL", 0, 0, NoRecent), ZeroScore("z2", "TOR")>>,
     <<Skater("d1", "MTL", 4, 4, NoRecent), Skater("d2", "TOR", 4, 4, NoRecent),
       Skater("d3", "MTL", 4, 4, NoRecent), Skater("d4", "TOR", 0, 0, NoRecent),
       Keeper("g1", "MTL", 4)>>,
     <<Skater("e1", "MTL", 4, 4, NoRecent), Skater("e2", "BOS", 4, 8, NoRecent)>>,
     <<Keeper("g1", "MTL", 2), Keeper("g2", "TOR", 0)>>}

ReportTeamTable ==
    <<Team("MTL", IntV(2), IntV(5), IntV(1)), Team("TOR", IntV(2), IntV(6), IntV(-2))>>

Todays ==
    {<<>>,
     <<Game("MTL", "TOR")>>,
     <<Game("mtl", "tor")>>,
     <<Game("MTL", "BOS"), Game("MTL", "TOR")>>,
     <<Game("BOS", "TOR"), Game("TOR", "MTL")>>,
     <<[homeTeam |-> [k |-> "null", abbrev |-> ""], awayTeam |-> TeamRef("TOR")],
       Game("MTL", "TOR")>>}

ArgsValues == {[mode |-> "all", index |-> 0]}
              \cup {[mode |-> "index", index |-> i] : i \in {-1, 0, 1, 2}}

\* main, lines 602-604: no game today
NoGames ==
    /\ pc = "players"
    /\ today = <<>>
    /\ pc' = "done"
    /\ UNCHANGED <<exc, teams_raw, teams_df, players_raw, players_df, xg_in, lam,
                   adj, eff, mc, mc_prev, today, args, gi, report>>

\* a report that consumes the table it reads: the first row of the player
\* table is gone after the call
SummarizeConsuming(g) ==
    \E r \in SummarizeOutcomes(g, teams_df, players_df) :
        /\ report' = r
        /\ exc' = r.exc
        /\ gi' = gi + 1
        /\ players_df' = IF players_df = <<>> THEN <<>> ELSE Tail(players_df)
        /\ UNCHANGED <<teams_raw, teams_df, players_raw, xg_in, lam,
                       adj, eff, mc, mc_prev, today, args>>

\* one call summarize_game(g, teams_df, players_df) of main: an exception it
\* raises ends the run; the call reads the two tables and assigns to neither
Summarize(g) ==
    \E r \in SummarizeOutcomes(g, teams_df, players_df) :
        /\ report' = r
        /\ exc' = r.exc
        /\ gi' = gi + 1
        /\ UNCHANGED <<teams_raw, teams_df, players_raw, players_df, xg_in, lam,
                       adj, eff, mc, mc_prev, today, args>>

\* main, lines 620-623: --all, the next game of today
SummarizeNext ==
    /\ pc = "players"
    /\ args.mode = "all"
    /\ gi < Len(today)
    /\ Summarize(today[gi + 1])
    /\ pc' = IF exc' # "none" THEN "crashed" ELSE "players"

\* main, line 623: --all, every game done
AllDone ==
    /\ pc = "players"
    /\ args.mode = "all"
    /\ today # <<>>
    /\ gi = Len(today)
    /\ pc' = "done"
    /\ UNCHANGED <<exc, teams_raw, teams_df, players_raw, players_df, xg_in, lam,
                   adj, eff, mc, mc_prev, today, args, gi, report>>

\* main, lines 625-631: --index
SummarizeIndex ==
    /\ pc = "players"
    /\ args.mode = "index"
    /\ today # <<>>
    /\ IF args.index < 0 \/ args.index >= Len(today)
       THEN /\ pc' = "done"
            /\ UNCHANGED <<exc, teams_raw, teams_df, players_raw, players_df,
                           xg_in, lam, adj, eff, mc, mc_prev, today, args, gi,
                           report>>
       ELSE /\ Summarize(today[args.index + 1])
            /\ pc' = IF exc' # "none" THEN "crashed" ELSE "done"

(***************************************************************************)
(* Specifications                                                          *)
(***************************************************************************)
\* the rate model on arbitrary rate dicts
InitXG == pc = "start" /\ Blank
NextXG == CallExpectedGoals
SpecXG == InitXG /\ [][NextXG]_vars

\* the team normalizer followed by the rate model
InitTeams ==
    /\ pc = "start"
    /\ exc = "none"
    /\ teams_raw \in TeamTables /\ teams_df = <<>>
    /\ players_raw = <<>> /\ players_df = <<>>
    /\ xg_in = NoXG /\ lam = NoLam
    /\ adj = NoAdj /\ eff = NoEff
    /\ mc = NoMC /\ mc_prev = NoMC
    /\ today = <<>> /\ args = NoArgs /\ gi = 0
    /\ report = NoReport
NextTeams == BuildTeamDf \/ LookupAndRate
SpecTeams == InitTeams /\ [][NextTeams]_vars

\* the player normalizer followed by the form adjustment and the ranker
InitPlayers ==
    /\ pc = "teams"
    /\ exc = "none"
    /\ teams_raw = <<>> /\ teams_df = <<>>
    /\ players_raw \in PlayerTables /\ players_df = <<>>
    /\ xg_in = NoXG /\ lam = NoLam
    /\ adj = NoAdj /\ eff = NoEff
    /\ mc = NoMC /\ mc_prev = NoMC
    /\ today = <<>> /\ args = NoArgs /\ gi = 0
    /\ report = NoReport
NextPlayers == BuildPlayerDf \/ ApplyPlayerFormAdjustment \/ EffectivePlayersForGame
               \/ DescribeLeastEffective
SpecPlayers == InitPlayers /\ [][NextPlayers]_vars

\* the player normalizer followed by the form adjustment, on rosters larger
\* than the cap
InitLineup ==
    /\ pc = "teams"
    /\ exc = "none"
    /\ teams_raw = <<>> /\ teams_df = <<>>
    /\ players_raw \in LineupTables /\ players_df = <<>>
    /\ xg_in = NoXG /\ lam = NoLam
    /\ adj = NoAdj /\ eff = NoEff
    /\ mc = NoMC /\ mc_prev = NoMC
    /\ today = <<>> /\ args = NoArgs /\ gi = 0
    /\ report = NoReport
NextLineup == BuildPlayerDf \/ ApplyPlayerFormAdjustment
SpecLineup == InitLineup /\ [][NextLineup]_vars

\* the simulator called twice with the same arguments
InitMC == pc = "start" /\ Blank
NextMC == MonteCarloGame \/ MonteCarloGameAgain
SpecMC == InitMC /\ [][NextMC]_vars

\* a run of main (--all or --index) over the three files
Init ==
    /\ pc = "start"
    /\ exc = "none"
    /\ teams_raw \in MainTeamTables /\ teams_df = <<>>
    /\ players_raw \in MainPlayerTables /\ players_df = <<>>
    /\ xg_in = NoXG /\ lam = NoLam
    /\ adj = NoAdj /\ eff = NoEff
    /\ mc = NoMC /\ mc_prev = NoMC
    /\ today \in Todays /\ args \in ArgsValues /\ gi = 0
    /\ report = NoReport
Next == BuildTeamDf \/ BuildPlayerDf \/ NoGames \/ SummarizeNext \/ AllDone
        \/ SummarizeIndex
Spec == Init /\ [][Next]_vars

\* a run of main --index over one game, for the lists of the report
InitReport ==
    /\ pc = "start"
    /\ exc = "none"
    /\ teams_raw = ReportTeamTable /\ teams_df = <<>>
    /\ players_raw \in ReportPlayerTables /\ players_df = <<>>
    /\ xg_in = NoXG /\ lam = NoLam
    /\ adj = NoAdj /\ eff = NoEff
    /\ mc = NoMC /\ mc_prev = NoMC
    /\ today = <<Game("MTL", "TOR")>>
    /\ args \in {[mode |-> "index", index |-> i] : i \in {0, 1}}
    /\ gi = 0
    /\ report = NoReport
NextReport == BuildTeamDf \/ BuildPlayerDf \/ SummarizeIndex
SpecReport == InitReport /\ [][NextReport]_vars

(***************************************************************************)
(* Properties                                                              *)
(***************************************************************************)
\* C1: whatever the two team dicts (rates present, zero, missing, null or
\* NaN) and the home advantage, expected_goals_from_team_stats returns
\* lambda_home in [0.2, 6.0] and lambda_away in [0.1, 6.0].
C1_LambdaWithinClamp ==
    xg_in.called =>
        /\ InRange(lam[1], Num(2, 10), IntV(6))
        /\ InRange(lam[2], Num(1, 10), IntV(6))

\* a call with a zero home scoring rate, a null away conceding rate and a
\* home advantage of -10: lambda_home is clamped up to 0.2
C1_Witness ==
    /\ xg_in.called
    /\ xg_in.home.gf_per_game = IntV(0)
    /\ xg_in.away.ga_per_game = None
    /\ xg_in.adv = IntV(-10)
    /\ lam[1] = Num(2, 10)

\* C2: every row of build_player_df's table has form_factor in [0.5, 1.5],
\* and form_factor is exactly 1.0 when the season points-per-game is 0.
C2_FormFactorBounded ==
    \A i \in 1..Len(players_df) :
        /\ InRange(players_df[i].form_factor, Num(1, 2), Num(3, 2))
        /\ Eq(players_df[i].ppg, IntV(0)) => players_df[i].form_factor = IntV(1)

\* a table with a scoreless player who has a 6-point recent game (factor
\* 1.0) and a player whose recent rate is 0 against a season rate of 1
\* (factor clamped to 0.5)
C2_Witness ==
    /\ \E i \in 1..Len(players_df) :
          /\ Eq(players_df[i].ppg, IntV(0))
          /\ Eq(players_df[i].form5_ppg, IntV(6))
          /\ players_df[i].form_factor = IntV(1)
    /\ \E i \in 1..Len(players_df) :
          /\ Eq(players_df[i].ppg, IntV(1))
          /\ Eq(players_df[i].form5_ppg, IntV(0))
          /\ players_df[i].form_factor = Num(1, 2)

\* C3: apply_player_form_adjustment returns team factors in [0.85, 1.15],
\* and each adjusted lambda is the input lambda times that team's factor.
C3_TeamFactorBounded ==
    adj.called =>
        /\ InRange(adj.home_factor, Num(85, 100), Num(115, 100))
        /\ InRange(adj.away_factor, Num(85, 100), Num(115, 100))
        /\ Eq(adj.lam_home_adj, Mul(adj.lam_home, adj.home_factor))
        /\ Eq(adj.lam_away_adj, Mul(adj.lam_away, adj.away_factor))

\* the average form factor of the home team's candidates is below 0.85, so
\* the factor is clamped to 0.85; the away team is unknown (factor 1.0)
C3_Witness ==
    /\ adj.called
    /\ adj.home_set # {}
    /\ Lt(FactorOfUnclamped(players_df, adj.home_set), Num(85, 100))
    /\ adj.home_factor = Num(85, 100)
    /\ adj.away_set = {}
    /\ adj.away_factor = IntV(1)
    /\ adj.lam_home_adj = Mul(adj.lam_home, Num(85, 100))

\* what the rate model should use for one team: aggregate / games-played
\* when games-played > 0, the defaults 2.7 and 2.9 when games-played is 0
RatesAsClaimed(team) ==
    /\ Lt(IntV(0), team.gamesPlayed) =>
          /\ Eq(UsedGF(team), Div(team.goalFor, team.gamesPlayed))
          /\ Eq(UsedGA(team), Div(team.goalAgainst, team.gamesPlayed))
    /\ Eq(team.gamesPlayed, IntV(0)) =>
          /\ UsedGF(team) = Num(27, 10)
          /\ UsedGA(team) = Num(29, 10)

\* C5 (as claimed): the scoring and conceding rates the rate model uses for
\* a team are goals-for / games-played and goals-against / games-played when
\* games-played > 0 (a rate of 0 included), and the defaults 2.7 and 2.9
\* when games-played is 0.
C5_RatesUsed ==
    xg_in.called => RatesAsClaimed(xg_in.home) /\ RatesAsClaimed(xg_in.away)

\* the position the record carries: position, else pos; for a dict its code,
\* else abbrev, else name
Designation(raw) ==
    LET pos == IF PosTruthy(raw.position) THEN raw.position ELSE raw.pos
    IN  IF pos.k = "str" THEN pos.s
        ELSE IF pos.k = "dict"
             THEN (IF pos.s # <<>> THEN pos.s
                   ELSE IF pos.abbrev # <<>> THEN pos.abbrev ELSE pos.name)
        ELSE <<>>

\* the record's position says goaltender: "G" or "Goalie", in any case
MarkedGoaltender(raw) ==
    UpperText(Designation(raw)) \in {<<"G">>, <<"G", "O", "A", "L", "I", "E">>}

\* C6: no player whose position marks them as a goaltender is in the
\* ranking returned by _effective_players_for_game.
C6_NoGoalieRanked ==
    eff.called =>
        \A i \in 1..Len(eff.ranking) : ~MarkedGoaltender(eff.ranking[i].raw)

\* a ranking with a skater in it, for a game one of whose teams has a
\* goaltender in the table
C6_Witness ==
    /\ eff.called
    /\ Len(eff.ranking) >= 1
    /\ \E i \in 1..Len(players_df) :
          /\ MarkedGoaltender(players_df[i].raw)
          /\ Upper(players_df[i].team_abbrev)
                \in {Upper(AbbrevOf(eff.game.homeTeam)),
                     Upper(AbbrevOf(eff.game.awayTeam))}

\* C7 (as claimed): no player whose position is goaltender is among the
\* players whose form_factor team_factor averages.
C7_NoGoalieAveraged ==
    adj.called =>
        \A i \in adj.home_set \cup adj.away_set :
            ~MarkedGoaltender(players_df[i].raw)

\* C9 (as claimed): build_team_df and build_player_df never raise.
C9_NeverRaises == exc = "none"

\* C4: for sims >= 1 every trial of monte_carlo_game is a home win, an away
\* win or a draw and nothing else: the three probabilities add up to 1 and
\* each lies in [0, 1].
C4_ProbabilitiesSumToOne ==
    (mc.called /\ ~mc.raised /\ mc.sims >= 1) =>
        /\ Eq(Add(Add(mc.result.home_win_prob, mc.result.away_win_prob),
                  mc.result.draw_prob), IntV(1))
        /\ InRange(mc.result.home_win_prob, IntV(0), IntV(1))
        /\ InRange(mc.result.away_win_prob, IntV(0), IntV(1))
        /\ InRange(mc.result.draw_prob, IntV(0), IntV(1))

\* two trials, one won by the home side and one drawn
C4_Witness ==
    /\ mc.called /\ ~mc.raised /\ mc.sims = 2
    /\ mc.result.home_win_prob = Num(1, 2)
    /\ mc.result.draw_prob = Num(1, 2)
    /\ mc.result.away_win_prob = IntV(0)

\* C8 (as claimed): two calls of monte_carlo_game with the same seed, the
\* same lambdas and the same trial count return identical results.  The
\* function takes no seed; the two calls here have identical arguments.
C8_RepeatableResult ==
    (pc = "repeated" /\ ~mc.raised) => mc.result = mc_prev.result

\* C10 (as claimed): when the home or the away team of a (well-formed) game
\* has no row in the team table, summarize_game reports the missing team
\* stats and returns: no lambdas, no simulation, no ranking, no exception.
C10_MissingTeamReported ==
    (/\ report.status # "none"
     /\ report.game.homeTeam.k = "dict" /\ report.game.awayTeam.k = "dict"
     /\ \/ TeamRowsOf(teams_df, AbbrevOf(report.game.homeTeam)) = {}
        \/ TeamRowsOf(teams_df, AbbrevOf(report.game.awayTeam)) = {})
    => /\ report.status = "missing team stats"
       /\ report.exc = "none"
       /\ report.lam = NoLam
       /\ report.adj = NoAdj
       /\ report.mc = NoResult
       /\ report.ranking = <<>>

\* C11 (as claimed): in batch mode (--all) a failure while one game is
\* processed never prevents the remaining games from being processed: once
\* a game of the list has been handed to summarize_game, the run is never
\* over with a game of today's list left unprocessed.
C11_BatchContinues ==
    (args.mode = "all" /\ gi >= 1 /\ pc \in {"done", "crashed"})
    => gi = Len(today)

\* the raw records of the two teams of game that are not goaltenders
SkatersOf(game, raw) ==
    {i \in 1..Len(raw) :
        /\ Upper(raw[i].team) \in {Upper(AbbrevOf(game.homeTeam)),
                                   Upper(AbbrevOf(game.awayTeam))}
        /\ ~MarkedGoaltender(raw[i])}

\* C12 (as claimed): for a game in which neither team has a non-goaltender
\* player in the player collection (an empty collection included), nothing
\* raises from normalization to the end of the report: build_player_df
\* returns a table, and a report that gets past the team lookup has an empty
\* ranking and ends with the "no skater player data available" note.
C12_NoSkaterNoted ==
    /\ (/\ pc = "crashed" /\ report.status = "none"
        /\ ~build_team_df_raises(teams_raw))
       => \A i \in 1..Len(today) : SkatersOf(today[i], players_raw) # {}
    /\ (/\ report.status \in {"done", "no skater data"}
        /\ SkatersOf(report.game, players_raw) = {})
       => /\ report.status = "no skater data"
          /\ report.exc = "none"
          /\ report.ranking = <<>>

\* C13 (as claimed): a trial count below 1 (zero or negative) is rejected
\* with an error: monte_carlo_game never returns a result dictionary for
\* sims <= 0.
C13_TrialCountRejected ==
    (mc.called /\ mc.sims <= 0) => mc.raised

C15_StrongerHomeFavoured ==
    /\ LET l == expected_goals_from_team_stats(
                    RateRow(Num(35, 10), Num(25, 10)),
                    RateRow(IntV(2), Num(35, 10)), DefaultAdv)
       IN  Lt(l[2], l[1])
    /\ (/\ xg_in.called
        /\ Lt(IntV(0), xg_in.home.gamesPlayed)
        /\ Lt(IntV(0), xg_in.away.gamesPlayed)
        /\ Le(IntV(0), xg_in.adv)
        /\ Le(xg_in.away.gf_per_game, xg_in.home.gf_per_game)
        /\ Le(xg_in.home.ga_per_game, xg_in.away.ga_per_game))
       => Le(lam[2], lam[1])

\* a game-log entry that records 0 points: an explicit points field of 0, or
\* no points field and goals and assists that are 0 where given
ZeroEntry(g) ==
    /\ g.isdict
    /\ \/ Eq(g.points, IntV(0))
       \/ /\ g.points.k \in {"absent", "none"}
          /\ \A v \in {g.goals, g.assists} :
                v.k \in {"absent", "none"} \/ Eq(v, IntV(0))
          /\ \E v \in {g.goals, g.assists} : Eq(v, IntV(0))

\* season points 0 and a recent-games sequence whose entries all have 0 points
ZeroSeason(raw) ==
    /\ Eq(raw.points, IntV(0))
    /\ raw.gameLog # <<>>
    /\ \A i \in 1..Len(raw.gameLog) : ZeroEntry(raw.gameLog[i])

Reasons(q) == {q[i] : i \in 1..Len(q)}

\* C16: a player with season points 0 and a recent-games sequence whose
\* entries all have 0 points has form_factor 1.0, and the explanation
\* _describe_least_effective builds for that player gives the reason "no
\* scoring this season" and not the reason "recent form down".
C16_NoScoringExplained ==
    /\ \A i \in 1..Len(players_df) :
          ZeroSeason(players_df[i].raw) => players_df[i].form_factor = IntV(1)
    /\ eff.described > 0 =>
          (ZeroSeason(eff.ranking[eff.described].raw) =>
              /\ "no scoring this season" \in Reasons(eff.reasons)
              /\ "recent form down" \notin Reasons(eff.reasons))

\* an explanation built for a player with games played, 0 points and five
\* scoreless recent games
C16_Witness ==
    /\ pc = "described"
    /\ eff.described > 0
    /\ ZeroSeason(eff.ranking[eff.described].raw)
    /\ Len(eff.ranking[eff.described].raw.gameLog) = 5
    /\ eff.ranking[eff.described].gamesPlayed > 0
    /\ players_df[1].form_factor = IntV(1)

\* C17: for every eligible skater, adj_score = base_score + 0.06 * plus_minus
\* - 0.03 * penalty_minutes_per_game - P, where P is exactly 0.25 when games
\* played < 3 and exactly 0 when games played >= 3, whatever the other
\* components.  (The adj_score of line 333 is the row's ranking score less
\* the tie-breaker of line 336; with no game played the penalty minutes are
\* taken as already per game.)
C17_SamplePenaltyFixed ==
    \A i \in 1..Len(eff.ranking) :
        LET r      == eff.ranking[i]
            gp     == r.gamesPlayed
            P      == IF gp < 3 THEN Num(1, 4) ELSE IntV(0)
            pim_pg == IF gp > 0 THEN Div(r.pim, IntV(gp)) ELSE r.pim
        IN  Sub(r.adj_score, tie_break(r.ppg, gp))
              = Sub(Sub(Add(r.base_score, Mul(Num(6, 100), r.plusMinus)),
                        Mul(Num(3, 100), pim_pg)), P)

\* Scenario C: a ranked skater with 2 games played, a plus/minus, penalty
\* minutes and a base score
C17_Witness ==
    /\ eff.called
    /\ \E i \in 1..Len(eff.ranking) :
          /\ eff.ranking[i].gamesPlayed = 2
          /\ eff.ranking[i].plusMinus = IntV(-2)
          /\ eff.ranking[i].pim = IntV(12)
          /\ eff.ranking[i].base_score # IntV(0)

\* C18: for every trial count >= 1, monte_carlo_game called with lambda_home
\* = 0 and lambda_away = 0 returns draw_prob = 1.0, home_win_prob = 0,
\* away_win_prob = 0 and average goals 0 for both sides.
C18_ZeroRatesAlwaysDraw ==
    (/\ mc.called /\ mc.sims >= 1
     /\ Eq(mc.lam_home, IntV(0)) /\ Eq(mc.lam_away, IntV(0)))
    => /\ ~mc.raised
       /\ mc.result.draw_prob = IntV(1)
       /\ mc.result.home_win_prob = IntV(0)
       /\ mc.result.away_win_prob = IntV(0)
       /\ mc.result.avg_home_goals = IntV(0)
       /\ mc.result.avg_away_goals = IntV(0)

\* Scenario D, with more than one trial, called twice
C18_Witness ==
    /\ pc = "repeated"
    /\ mc.sims = MaxSims
    /\ Eq(mc.lam_home, IntV(0)) /\ Eq(mc.lam_away, IntV(0))
    /\ mc.result.draw_prob = IntV(1)
    /\ mc_prev.result.draw_prob = IntV(1)

\* the minutes a time-on-ice value denotes: MM + SS/60 for the text "MM:SS",
\* the number itself for a number, 0 for null, missing or unparseable
MinutesDenoted(v) ==
    CASE v.k = "mmss" -> Num(60 * v.n + v.d, 60)
      [] v.k = "num" -> v
      [] OTHER -> IntV(0)

\* C19: _parse_toi maps every text "MM:SS" to MM + SS/60 minutes and every
\* number to that same number of minutes, so a text and a number denoting
\* the same duration parse to the same value; a null or unparseable value
\* gives 0.
C19_TimeOnIceParsed ==
    /\ \A i \in 1..Len(eff.ranking) :
          LET toi == eff.ranking[i].raw.toi
          IN  toi.k \in {"mmss", "num", "none", "absent", "text"}
                 => eff.ranking[i].toi_min = MinutesDenoted(toi)
    /\ \A i, j \in 1..Len(eff.ranking) :
          LET a == eff.ranking[i].raw.toi
              b == eff.ranking[j].raw.toi
          IN  (a.k = "mmss" /\ b.k = "num" /\ Eq(Num(60 * a.n + a.d, 60), b))
                 => eff.ranking[i].toi_min = eff.ranking[j].toi_min

\* Scenario E: one ranking holds a skater whose time on ice is the text
\* "18:30" and a skater whose time on ice is the number 18.5
C19_Witness ==
    /\ eff.called
    /\ \E i, j \in 1..Len(eff.ranking) :
          /\ eff.ranking[i].raw.toi = MMSS(18, 30)
          /\ eff.ranking[j].raw.toi = Num(37, 2)
          /\ eff.ranking[i].toi_min = Num(37, 2)
          /\ eff.ranking[j].toi_min = Num(37, 2)

\* what each aggregate source yields on its own, None when it is absent or
\* yields nothing usable: the last-5 total, the recent points / recent games
\* pair, the list of per-game point values
Last5Yield(raw) ==
    IF FloatOk(raw.last5Points) THEN Div(raw.last5Points, IntV(5)) ELSE None
RecentPairYield(raw) ==
    IF FloatOk(raw.recentPoints) /\ IsNum(raw.recentGames)
       /\ Trunc(raw.recentGames) > 0
    THEN Div(raw.recentPoints, IntV(Trunc(raw.recentGames))) ELSE None
LastFiveYield(raw) ==
    LET last == SelectSeq(raw.lastFive, LAMBDA x : x.k # "none")
    IN  IF Len(last) > 0 /\ \A i \in 1..Len(last) : FloatOk(last[i])
        THEN Div(SumSeq(last), IntV(Len(last))) ELSE None

\* the first source, in priority order, that yields a usable value
FirstUsable(raw) ==
    LET q == SelectSeq(<<GameLogRate(raw), Last5Yield(raw), RecentPairYield(raw),
                         LastFiveYield(raw)>>, LAMBDA v : v.k # "none")
    IN  IF q = <<>> THEN FallbackRate(raw) ELSE Head(q)

\* C20 (as claimed): each player's recent rate is taken from the
\* highest-priority source that yields a usable value, in the order
\* recent-games sequence, explicit aggregate recent fields, list of per-game
\* point values, season points / max(1, games played); a higher-priority
\* source that is present but yields nothing usable does not keep a usable
\* lower-priority source from being used.
C20_FirstUsableSourceUsed ==
    \A i \in 1..Len(players_df) :
        players_df[i].form5_ppg = FirstUsable(players_df[i].raw)

\* the points of a game-log entry: its explicit points field when present
\* and non-null, otherwise goals + assists (a missing one counting 0);
\* None when the entry is no dict or gives none of the three
PointsOfEntry(g) ==
    IF ~g.isdict THEN None
    ELSE IF g.points.k \notin {"absent", "none"} THEN g.points
    ELSE IF g.goals.k \in {"absent", "none"} /\ g.assists.k \in {"absent", "none"}
    THEN None
    ELSE LET gv == IF g.goals.k \in {"absent", "none"} THEN IntV(0) ELSE g.goals
             av == IF g.assists.k \in {"absent", "none"} THEN IntV(0) ELSE g.assists
         IN  IF IsNumeric(gv) /\ IsNumeric(av) THEN Add(gv, av) ELSE Text

\* the positions, among the first 5, of the entries with numeric points
UsableEntries(gl) ==
    {i \in 1..Min2(Len(gl), 5) : IsNumeric(PointsOfEntry(gl[i]))}

RECURSIVE SumOver(_, _)
SumOver(gl, S) ==
    IF S = {} THEN IntV(0)
    ELSE LET i == CHOOSE x \in S : TRUE
         IN  Add(PointsOfEntry(gl[i]), SumOver(gl, S \ {i}))

\* C21: when a player record has a non-empty recent-games sequence with at
\* least one usable entry, the recent rate is the sum of points over the
\* usable entries among at most the first 5 entries divided by the number of
\* usable entries (not by 5, not by the length of the sequence).
C21_GameLogAverage ==
    \A i \in 1..Len(players_df) :
        LET gl == players_df[i].raw.gameLog
            U  == UsableEntries(gl)
        IN  U # {} =>
              players_df[i].form5_ppg = Div(SumOver(gl, U), IntV(Cardinality(U)))

\* a game log of six entries, three of the first five usable (2, 1 and 1 + 2
\* points), the sixth with 9 points: the rate is 6 / 3
C21_Witness ==
    /\ Len(players_df) >= 1
    /\ Len(players_df[1].raw.gameLog) = 6
    /\ Cardinality(UsableEntries(players_df[1].raw.gameLog)) = 3
    /\ players_df[1].form5_ppg = IntV(2)

\* C22 (as claimed): when a player record has no usable recent-games
\* sequence and no last-5 total, but has a recent-points field and a positive
\* recent-games-played field, the recent rate is recent points / recent
\* games played.
C22_RecentPairUsed ==
    \A i \in 1..Len(players_df) :
        LET raw == players_df[i].raw
        IN  (/\ UsableEntries(raw.gameLog) = {}
             /\ raw.last5Points.k \in {"absent", "none"}
             /\ IsNum(raw.recentPoints)
             /\ Lt(IntV(0), raw.recentGames))
            => players_df[i].form5_ppg = Div(raw.recentPoints, raw.recentGames)

\* the claimed selection for the team abbrev, given the rows S whose form
\* factors were averaged into factor f
LineupAsClaimed(abbrev, S, f) ==
    LET team   == {i \in 1..Len(players_df) :
                      Upper(players_df[i].team_abbrev) = Upper(abbrev)}
        played == {i \in team : players_df[i].gamesPlayed > 0}
    IN  (abbrev # "" /\ played # {}) =>
          /\ S # {} /\ S \subseteq played
          /\ Cardinality(S) <= 9
          /\ \A i \in S : \A j \in played \ S :
                ~(players_df[j].gamesPlayed > players_df[i].gamesPlayed)
          /\ f = FactorOf(players_df, S)

\* C23: for each side, when the team has a player with games played > 0, the
\* form factors averaged by team_factor belong to at most 9 players of that
\* team, all with games played > 0, and no player of the team with games
\* played > 0 who is left out has strictly more games played than a player
\* who is included.
C23_LineupSelection ==
    adj.called =>
        /\ LineupAsClaimed(adj.home_ab, adj.home_set, adj.home_factor)
        /\ LineupAsClaimed(adj.away_ab, adj.away_set, adj.away_factor)

\* eleven players of the home team have played, each a different number of
\* games: the nine averaged are those with the most games, two are left out
C23_Witness ==
    /\ adj.called
    /\ Cardinality(Played(players_df, adj.home_ab)) = 11
    /\ Cardinality(adj.home_set) = 9
    /\ \A i \in adj.home_set : players_df[i].gamesPlayed >= 3
    /\ \E j \in Played(players_df, adj.home_ab) \ adj.home_set :
          players_df[j].gamesPlayed = 2

\* the team abbrev has no player who has played a game
NoContributor(abbrev) ==
    \/ abbrev = ""
    \/ \A i \in 1..Len(players_df) :
          Upper(players_df[i].team_abbrev) = Upper(abbrev)
              => players_df[i].gamesPlayed = 0

\* C24: when a team has no regular contributor (no player row for its
\* abbreviation, an empty abbreviation, or only players with games played 0),
\* its team factor is exactly 1.0 and its lambda is returned unchanged; the
\* call has returned without an exception.
C24_NoContributorNoAdjustment ==
    adj.called =>
        /\ exc = "none"
        /\ NoContributor(adj.home_ab) =>
              adj.home_factor = IntV(1) /\ adj.lam_home_adj = adj.lam_home
        /\ NoContributor(adj.away_ab) =>
              adj.away_factor = IntV(1) /\ adj.lam_away_adj = adj.lam_away

\* the home team has no row in the table; the away team has two rows, both
\* with no game played and a recent rate above zero; neither lambda changes
C24_Witness ==
    /\ adj.called
    /\ adj.home_ab # "" /\ TeamPlayers(players_df, adj.home_ab) = {}
    /\ Cardinality(TeamPlayers(players_df, adj.away_ab)) = 2
    /\ \A i \in TeamPlayers(players_df, adj.away_ab) :
          /\ players_df[i].gamesPlayed = 0
          /\ Lt(IntV(0), players_df[i].form5_ppg)
    /\ adj.home_factor = IntV(1) /\ adj.away_factor = IntV(1)
    /\ adj.lam_home_adj = IntV(3) /\ adj.lam_away_adj = Num(5, 2)

\* adj_score of line 333, from the fields of a ranking row
AdjScoreOf(row) ==
    LET pim_pg == IF row.gamesPlayed > 0
                  THEN Div(row.pim, IntV(row.gamesPlayed)) ELSE row.pim
    IN  Sub(Sub(Add(row.base_score, Mul(Num(6, 100), row.plusMinus)),
                Mul(Num(3, 100), pim_pg)),
            gp_penalty(row.gamesPlayed))

\* C25: the score by which eligible skaters are ranked equals
\* adj_score + 0.002 * season_points + min(games_played, 82) / 1000, where
\* season_points is the player's season points total.
C25_FinalScoreBySeasonPoints ==
    \A i \in 1..Len(eff.ranking) :
        LET row == eff.ranking[i]
        IN  row.adj_score =
              Add(Add(AdjScoreOf(row), Mul(Num(2, 1000), ToNumeric0(row.raw.points))),
                  Num(Min2(row.gamesPlayed, GamesCap), 1000))

\* the rows of a sequence of ranking rows
RowsOf(q) == {q[i] : i \in 1..Len(q)}

\* C26: the ranking returned by _effective_players_for_game is ordered by
\* final score, non-increasing, and the hot list is its first min(3, n)
\* entries: no eligible player outside the hot list has a strictly higher
\* final score than a player inside it.
C26_HotListIsTopOfRanking ==
    report.status \in {"done", "no skater data"} =>
        LET r == report.ranking
            n == Cardinality(Eligible(report.game, players_df))
            k == IF n < 3 THEN n ELSE 3
        IN  /\ Len(r) = n
            /\ \A i \in 1..(Len(r) - 1) : Le(r[i + 1].adj_score, r[i].adj_score)
            /\ Len(report.hot) = k
            /\ \A i \in 1..Len(report.hot) : report.hot[i] = r[i]
            /\ \A j \in Eligible(report.game, players_df) :
                  \/ RankRow(players_df[j]) \in RowsOf(report.hot)
                  \/ \A h \in RowsOf(report.hot) :
                        ~Lt(h.adj_score, RankRow(players_df[j]).adj_score)

\* six eligible skaters with six different scores: the hot list is the three
\* highest, and the fourth of the ranking scores strictly less
C26_Witness ==
    /\ report.status = "done"
    /\ Len(report.ranking) = 6
    /\ Len(report.hot) = 3
    /\ report.hot[1].name = "a1"
    /\ Lt(report.ranking[4].adj_score, report.hot[3].adj_score)

\* the smaller of n and 3
UpTo3(n) == IF n < 3 THEN n ELSE 3

\* C27: when at least 3 eligible players have a final score different from 0,
\* the cold list is the 3 players with the lowest non-zero final scores, in
\* ascending order, and contains no player whose score is exactly 0; when
\* fewer than 3 have a non-zero score, the cold list is the (up to) 3
\* lowest-scoring players among all eligible players, zero scores included.
C27_ColdListRule ==
    report.status = "done" =>
        LET all     == {RankRow(players_df[j]) :
                           j \in Eligible(report.game, players_df)}
            nonzero == {p \in all : ~Eq(p.adj_score, IntV(0))}
            pool    == IF Cardinality(nonzero) >= 3 THEN nonzero ELSE all
            cold    == report.cold
        IN  /\ Len(cold) = UpTo3(Cardinality(pool))
            /\ RowsOf(cold) \subseteq pool
            /\ Cardinality(RowsOf(cold)) = Len(cold)
            /\ \A i \in 1..(Len(cold) - 1) :
                  Le(cold[i].adj_score, cold[i + 1].adj_score)
            /\ \A p \in pool \ RowsOf(cold) : \A c \in RowsOf(cold) :
                  ~Lt(p.adj_score, c.adj_score)

\* three skaters with a positive score and two with a score of exactly 0:
\* the cold list is the three positive scores in ascending order, although
\* both zero scores are lower
C27_Witness ==
    /\ report.status = "done"
    /\ Len(report.ranking) = 5
    /\ Cardinality({i \in 1..5 : Eq(report.ranking[i].adj_score, IntV(0))}) = 2
    /\ Len(report.cold) = 3
    /\ report.cold[1].name = "b3" /\ report.cold[2].name = "b2"
    /\ report.cold[3].name = "b1"
    /\ Lt(IntV(0), report.cold[1].adj_score)

\* two skaters with a non-zero score and two with a score of exactly 0: the
\* cold list is the three lowest of the four and holds both zero scores
C27_WitnessFewNonZero ==
    /\ report.status = "done"
    /\ Len(report.ranking) = 4
    /\ report.cold[1].name = "c2" /\ Lt(report.cold[1].adj_score, IntV(0))
    /\ Eq(report.cold[2].adj_score, IntV(0))
    /\ Eq(report.cold[3].adj_score, IntV(0))

\* the player names of a sequence of ranking rows
NamesOf(q) == {q[i].name : i \in 1..Len(q)}

\* C28: in every game report, no player is listed both among the hot (top)
\* players and among the cold (least effective) players, for every number of
\* eligible skaters including fewer than 6.
C28_HotAndColdDisjoint ==
    report.status = "done" => NamesOf(report.hot) \cap NamesOf(report.cold) = {}

\* C29: in every game report, the reported tail probability P(total > 6) is
\* never greater than the reported P(total > 5), for every pair of adjusted
\* lambdas and every outcome of the random draws.
C29_TailsMonotone ==
    report.status \in {"done", "no skater data"} =>
        Le(report.prob_over_6, report.prob_over_5)

\* the record has the collector's shape: its recent games are under
\* last5Games, with at least one usable entry, and under no other key
CollectorShaped(raw) ==
    /\ UsableEntries(raw.last5Games) # {}
    /\ raw.gameLog = <<>> /\ raw.lastFive = <<>>
    /\ raw.last5Points.k = "absent"
    /\ raw.recentPoints.k = "absent" /\ raw.recentGames.k = "absent"

\* C30: for a skater record in the shape the collector writes (recent games
\* stored as a non-empty list under the key last5Games, each entry with
\* points), build_player_df computes the recent rate from those recent-game
\* entries rather than from the season points-per-game fallback, so a player
\* whose recent points differ from the season rate gets a form_factor
\* different from 1.0.
C30_CollectorRecentGamesUsed ==
    \A i \in 1..Len(players_df) :
        LET r    == players_df[i]
            l5   == r.raw.last5Games
            U    == UsableEntries(l5)
            rate == Div(SumOver(l5, U), IntV(Cardinality(U)))
        IN  CollectorShaped(r.raw) =>
              /\ r.form5_ppg = rate
              /\ (Lt(IntV(0), r.ppg) /\ ~Eq(rate, r.ppg))
                    => r.form_factor # IntV(1)

====
